---- MODULE Spec2Model ----
(***************************************************************************)
(* Model of src/lambda.py: lambda_handler, the ECR cross-account image     *)
(* sync handler.  One invocation is a process with three steps, split at   *)
(* the two registry calls: Invoke (lines 40-63), BatchGetImage (lines      *)
(* 65-103) and PutImage (lines 105-127).                                   *)
(*                                                                         *)
(* Python values: a dict is a function whose domain is its set of keys, a  *)
(* list is a sequence, None and strings are strings, an f-string is the    *)
(* sequence of its parts.                                                  *)
(***************************************************************************)
EXTENDS Naturals, Sequences, FiniteSets

\* ------------------------------------------------------------ bounds
NumTags == 2
NumDigests == 2
NumManifests == 2
NumInvocations == 2

\* ------------------------------------------------------------ values
None == "<None>"
EmptyDict == << >>

TagNames == <<"v1.2.0", "latest", "v2", "v3">>
DigestNames == <<"sha256:abc", "sha256:def", "sha256:123", "sha256:456">>
ManifestNames == <<"manifest-A", "manifest-B", "manifest-C", "manifest-D">>

Tags == {TagNames[k] : k \in 1..NumTags}
Digests == {DigestNames[k] : k \in 1..NumDigests}
Manifests == {ManifestNames[k] : k \in 1..NumManifests}
Procs == 1..NumInvocations

\* str(x) inside an f-string
Str(x) == IF x = None THEN "None" ELSE x

\* bool(x) of None or a string
Truthy(x) == x \notin {None, ""}

\* x or y
Or(x, y) == IF Truthy(x) THEN x ELSE y

\* d.get(k)
DictGet(d, k) == IF k \in DOMAIN d THEN d[k] ELSE None

\* every dict with keys among K whose value under k is in V[k]
Dicts(K, V) == UNION {{d \in [S -> UNION {V[k] : k \in K}] : \A k \in S : d[k] \in V[k]} : S \in SUBSET K}

\* ------------------------------------------------------------ inputs
ConfigKeys == {"SOURCE_ACCOUNT_ID", "SOURCE_REGION", "DESTINATION_ACCOUNT_ID", "DESTINATION_REGION", "REPO_NAME"}

ConfigValue == [k \in ConfigKeys |->
    CASE k = "SOURCE_ACCOUNT_ID" -> "111111111111"
      [] k = "SOURCE_REGION" -> "us-east-1"
      [] k = "DESTINATION_ACCOUNT_ID" -> "222222222222"
      [] k = "DESTINATION_REGION" -> "eu-west-1"
      [] k = "REPO_NAME" -> "app"]

\* os.environ: any subset of the five keys is set
Environs == {[k \in S |-> ConfigValue[k]] : S \in SUBSET ConfigKeys}
FullEnviron == [k \in ConfigKeys |-> ConfigValue[k]]

DetailKeys == {"image-tag", "image-digest"}
DetailValues == [k \in DetailKeys |-> IF k = "image-tag" THEN Tags \cup {None, ""} ELSE Digests \cup {None, ""}]

\* The event: "detail" is absent, null, or a dict with optional tag and digest.
Events == {[kind |-> "no_detail", detail |-> EmptyDict], [kind |-> "null_detail", detail |-> EmptyDict]}
          \cup {[kind |-> "detail", detail |-> d] : d \in Dicts(DetailKeys, DetailValues)}

\* ------------------------------------------------------------ outcomes
Return(value) == [kind |-> "return", value |-> value]
Raise(exc) == [kind |-> "raise", exc |-> exc]
Running == [kind |-> "none"]

ImageNotFoundException == "ImageNotFoundException"
ImageAlreadyExistsException == "ImageAlreadyExistsException"
OtherExceptions == {"RepositoryNotFoundException", "EndpointConnectionError"}
ClientExceptions == {ImageNotFoundException, ImageAlreadyExistsException} \cup OtherExceptions

AcceptedMediaTypes == <<"application/vnd.docker.distribution.manifest.v2+json",
                        "application/vnd.oci.image.manifest.v1+json",
                        "application/vnd.docker.distribution.manifest.list.v2+json">>

\* ------------------------------------------------------------ state
VARIABLES pc, event, environ, locals, calls, result, source, dest, putLog

vars == <<pc, event, environ, locals, calls, result, source, dest, putLog>>
handlerVars == <<pc, event, environ, locals, calls, result>>
registryVars == <<source, dest, putLog>>

NoLocals == EmptyDict

Absent == "<absent>"

Init ==
    /\ pc = [i \in Procs |-> "idle"]
    /\ event = [i \in Procs |-> [kind |-> "no_detail", detail |-> EmptyDict]]
    /\ environ = [i \in Procs |-> EmptyDict]
    /\ locals = [i \in Procs |-> NoLocals]
    /\ calls = [i \in Procs |-> << >>]
    /\ result = [i \in Procs |-> Running]
    /\ source = [tags |-> [t \in Tags |-> Absent], images |-> {}, pushed |-> [t \in Tags |-> {}]]
    /\ dest = [tags |-> [t \in Tags |-> Absent], images |-> {}]
    /\ putLog = << >>

\* ------------------------------------------------------------ lambda_handler
Call(op, args, resp) == [op |-> op, args |-> args, resp |-> resp]

Finish(i, outcome) ==
    /\ pc' = [pc EXCEPT ![i] = "done"]
    /\ result' = [result EXCEPT ![i] = outcome]

\* Variant of line 48 that tests "is None" instead of truthiness.
MissingReference_IsNone(image_tag, image_digest) == image_tag = None /\ image_digest = None

\* line 48: not image_tag and not image_digest
MissingReference(image_tag, image_digest) == ~Truthy(image_tag) /\ ~Truthy(image_digest)

\* line 49
NoReferenceResult == [status |-> "error", message |-> <<"No image tag or digest in event">>]

\* lines 52-55, in the order they are read
LateConfigKeys == {"SOURCE_ACCOUNT_ID", "SOURCE_REGION", "DESTINATION_ACCOUNT_ID", "DESTINATION_REGION"}

\* lines 62-63
CreateClients(env) ==
    << Call("client", [region_name |-> env["SOURCE_REGION"]], Return("ecr_source")),
       Call("client", [region_name |-> env["DESTINATION_REGION"]], Return("ecr_dest")) >>

\* lines 40-63: everything up to the first registry call
Invoke(i, ev, env) ==
    /\ pc[i] = "idle"
    /\ event' = [event EXCEPT ![i] = ev]
    /\ environ' = [environ EXCEPT ![i] = env]
    /\ IF ev.kind = "null_detail"
       THEN \* line 44: None has no attribute get
            /\ Finish(i, Raise("AttributeError"))
            /\ UNCHANGED <<locals, calls>>
       ELSE LET image_tag == DictGet(ev.detail, "image-tag")
                image_digest == DictGet(ev.detail, "image-digest")
            IN  IF "REPO_NAME" \notin DOMAIN env
                THEN \* line 46
                     /\ Finish(i, Raise("KeyError"))
                     /\ UNCHANGED <<locals, calls>>
                ELSE IF MissingReference(image_tag, image_digest)
                THEN \* lines 48-49
                     /\ Finish(i, Return(NoReferenceResult))
                     /\ UNCHANGED <<locals, calls>>
                ELSE IF ~(LateConfigKeys \subseteq DOMAIN env)
                THEN \* lines 52-55
                     /\ Finish(i, Raise("KeyError"))
                     /\ UNCHANGED <<locals, calls>>
                ELSE /\ pc' = [pc EXCEPT ![i] = "fetch"]
                     /\ locals' = [locals EXCEPT ![i] =
                            [image_tag |-> image_tag,
                             image_digest |-> image_digest,
                             repo_name |-> env["REPO_NAME"],
                             source_account |-> env["SOURCE_ACCOUNT_ID"],
                             source_region |-> env["SOURCE_REGION"],
                             dest_account |-> env["DESTINATION_ACCOUNT_ID"],
                             dest_region |-> env["DESTINATION_REGION"]]]
                     /\ calls' = [calls EXCEPT ![i] = CreateClients(env)]
                     /\ UNCHANGED result

\* Variant of line 68 that tests "is not None" instead of truthiness.
image_id_IsNotNone(image_tag, image_digest) ==
    IF image_tag # None THEN [imageTag |-> image_tag] ELSE [imageDigest |-> image_digest]

\* line 68: {"imageTag": image_tag} if image_tag else {"imageDigest": image_digest}
image_id(image_tag, image_digest) ==
    IF Truthy(image_tag) THEN [imageTag |-> image_tag] ELSE [imageDigest |-> image_digest]

\* lines 70-79: the keyword arguments of batch_get_image
FetchRequest(l) ==
    [registryId |-> l.source_account,
     repositoryName |-> l.repo_name,
     imageIds |-> <<image_id(l.image_tag, l.image_digest)>>,
     acceptedMediaTypes |-> AcceptedMediaTypes]

\* line 81: source_image.get("images") is truthy
HasImages(source_image) ==
    /\ "images" \in DOMAIN source_image
    /\ Len(source_image["images"]) > 0

\* line 82
NotFoundResult(image_tag, image_digest) ==
    [status |-> "error", message |-> <<"Image not found: ", Str(Or(image_tag, image_digest))>>]

\* Variant of lines 94-103 that never forwards the media type.
put_params_NoMediaType(dest_account, repo_name, image_manifest, image_tag, manifest_media_type) ==
    LET keys == {"registryId", "repositoryName", "imageManifest"}
                \cup (IF Truthy(image_tag) THEN {"imageTag"} ELSE {})
    IN  [k \in keys |->
            CASE k = "registryId" -> dest_account
              [] k = "repositoryName" -> repo_name
              [] k = "imageManifest" -> image_manifest
              [] k = "imageTag" -> image_tag]

\* lines 94-103
put_params(dest_account, repo_name, image_manifest, image_tag, manifest_media_type) ==
    LET keys == {"registryId", "repositoryName", "imageManifest"}
                \cup (IF Truthy(image_tag) THEN {"imageTag"} ELSE {})
                \cup (IF Truthy(manifest_media_type) THEN {"imageManifestMediaType"} ELSE {})
    IN  [k \in keys |->
            CASE k = "registryId" -> dest_account
              [] k = "repositoryName" -> repo_name
              [] k = "imageManifest" -> image_manifest
              [] k = "imageTag" -> image_tag
              [] k = "imageManifestMediaType" -> manifest_media_type]

\* Variant of lines 111-118 that reports the event's digest.
SuccessResult_EventDigest(l, dest_digest) ==
    [status |-> "success",
     source_account |-> l.source_account,
     destination_account |-> l.dest_account,
     repository |-> l.repo_name,
     tag |-> l.image_tag,
     digest |-> l.image_digest]

\* lines 111-118
SuccessResult(l, dest_digest) ==
    [status |-> "success",
     source_account |-> l.source_account,
     destination_account |-> l.dest_account,
     repository |-> l.repo_name,
     tag |-> l.image_tag,
     digest |-> dest_digest]

\* Variant of lines 125-127 that returns an error result instead of re-raising.
ExceptHandler_Swallow(exc, image_tag) ==
    IF exc = ImageNotFoundException
    THEN Return([status |-> "error", message |-> <<"Image not found in source: ", Str(image_tag)>>])
    ELSE IF exc = ImageAlreadyExistsException
    THEN Return([status |-> "skipped", message |-> <<"Image already exists">>, tag |-> image_tag])
    ELSE Return([status |-> "error", message |-> <<exc>>])

\* Variant of lines 122-124 that reports an already stored image as an error.
ExceptHandler_SkipAsError(exc, image_tag) ==
    IF exc = ImageNotFoundException
    THEN Return([status |-> "error", message |-> <<"Image not found in source: ", Str(image_tag)>>])
    ELSE IF exc = ImageAlreadyExistsException
    THEN Return([status |-> "error", message |-> <<"Image already exists">>, tag |-> image_tag])
    ELSE Raise(exc)

\* Variant of lines 120-127 without the clause for ImageAlreadyExistsException.
ExceptHandler_OnlyNotFound(exc, image_tag) ==
    IF exc = ImageNotFoundException
    THEN Return([status |-> "error", message |-> <<"Image not found in source: ", Str(image_tag)>>])
    ELSE Raise(exc)

\* lines 120-127: the except clauses, tried in order
ExceptHandler(exc, image_tag) ==
    IF exc = ImageNotFoundException
    THEN Return([status |-> "error", message |-> <<"Image not found in source: ", Str(image_tag)>>])
    ELSE IF exc = ImageAlreadyExistsException
    THEN Return([status |-> "skipped", message |-> <<"Image already exists">>, tag |-> image_tag])
    ELSE Raise(exc)

\* lines 65-103: the source lookup and what follows it up to the push
BatchGetImage(i, resp) ==
    /\ pc[i] = "fetch"
    /\ LET l == locals[i] IN
       /\ calls' = [calls EXCEPT ![i] = Append(@, Call("batch_get_image", FetchRequest(l), resp))]
       /\ IF resp.kind = "raise"
          THEN /\ Finish(i, ExceptHandler(resp.exc, l.image_tag))
               /\ UNCHANGED locals
          ELSE LET source_image == resp.value IN
               IF ~HasImages(source_image)
               THEN \* lines 81-82
                    /\ Finish(i, Return(NotFoundResult(l.image_tag, l.image_digest)))
                    /\ UNCHANGED locals
               ELSE LET image == source_image["images"][1] IN
                    IF "imageManifest" \notin DOMAIN image
                    THEN \* line 84: KeyError, caught at line 125 and re-raised
                         /\ Finish(i, ExceptHandler("KeyError", l.image_tag))
                         /\ UNCHANGED locals
                    ELSE LET image_manifest == image["imageManifest"]
                             manifest_media_type == DictGet(image, "imageManifestMediaType")
                         IN  /\ pc' = [pc EXCEPT ![i] = "push"]
                             /\ locals' = [locals EXCEPT ![i] =
                                    [image_tag |-> l.image_tag,
                                     image_digest |-> l.image_digest,
                                     repo_name |-> l.repo_name,
                                     source_account |-> l.source_account,
                                     source_region |-> l.source_region,
                                     dest_account |-> l.dest_account,
                                     dest_region |-> l.dest_region,
                                     image_manifest |-> image_manifest,
                                     manifest_media_type |-> manifest_media_type,
                                     put_params |-> put_params(l.dest_account, l.repo_name,
                                                       image_manifest, l.image_tag, manifest_media_type)]]
                             /\ UNCHANGED result
    /\ UNCHANGED <<event, environ>>

\* line 107: result["image"]["imageId"]["imageDigest"] can be read
HasDestDigest(put_result) ==
    /\ "image" \in DOMAIN put_result
    /\ "imageId" \in DOMAIN put_result["image"]
    /\ "imageDigest" \in DOMAIN put_result["image"]["imageId"]

\* lines 105-127: the push and the classification of its outcome
PutImage(i, resp) ==
    /\ pc[i] = "push"
    /\ LET l == locals[i] IN
       /\ calls' = [calls EXCEPT ![i] = Append(@, Call("put_image", l.put_params, resp))]
       /\ IF resp.kind = "raise"
          THEN Finish(i, ExceptHandler(resp.exc, l.image_tag))
          ELSE IF ~HasDestDigest(resp.value)
          THEN \* line 107: KeyError, caught at line 125 and re-raised
               Finish(i, ExceptHandler("KeyError", l.image_tag))
          ELSE Finish(i, Return(SuccessResult(l, resp.value["image"]["imageId"]["imageDigest"])))
    /\ UNCHANGED <<event, environ, locals>>

\* ------------------------------------------------------------ one invocation, any registry
\* What a registry client can answer: any client exception, or any response dict.
ImageDicts ==
    Dicts({"imageManifest", "imageManifestMediaType"},
          [k \in {"imageManifest", "imageManifestMediaType"} |->
              IF k = "imageManifest" THEN Manifests
              ELSE {"", AcceptedMediaTypes[1], AcceptedMediaTypes[3]}])

FetchResponses ==
    {Raise(e) : e \in ClientExceptions}
    \cup {Return(EmptyDict), Return([images |-> << >>])}
    \cup {Return([images |-> <<img>>]) : img \in ImageDicts}

PutResponses ==
    {Raise(e) : e \in ClientExceptions}
    \cup {Return(EmptyDict)}
    \cup {Return([image |-> [imageId |-> id]]) :
             id \in Dicts({"imageDigest"}, [k \in {"imageDigest"} |-> Digests])}

StubInvoke(i) ==
    /\ \E ev \in Events, env \in Environs : Invoke(i, ev, env)
    /\ UNCHANGED registryVars

StubBatchGetImage(i) ==
    /\ \E resp \in FetchResponses : BatchGetImage(i, resp)
    /\ UNCHANGED registryVars

StubPutImage(i) ==
    /\ \E resp \in PutResponses : PutImage(i, resp)
    /\ UNCHANGED registryVars

First == {1}

Next ==
    \E i \in First :
        \/ StubInvoke(i)
        \/ StubBatchGetImage(i)
        \/ StubPutImage(i)

Spec == Init /\ [][Next]_vars

\* ------------------------------------------------------------ invocations against two registries
\* The registries are the external ECR service.  The source holds what was
\* pushed to it; the destination stores a pushed manifest with its tag, moving
\* the tag if it named another manifest, or signals ImageAlreadyExistsException
\* when the identical manifest is already stored under that tag.
DigestOf(m) == DigestNames[CHOOSE k \in 1..Len(ManifestNames) : ManifestNames[k] = m]
MediaTypeOf(m) == AcceptedMediaTypes[1]

\* The EventBridge event of an image push: it names the tag and the digest.
PushEvent(t, m) ==
    [kind |-> "detail",
     detail |-> [k \in DetailKeys |-> IF k = "image-tag" THEN t ELSE DigestOf(m)]]

\* The source registry's answer to batch_get_image: the image the one
\* image id names, or an empty list.
SourceBatchGetImage(src, req) ==
    LET id == req.imageIds[1]
        found == IF "imageTag" \in DOMAIN id
                 THEN {m \in src.images : id.imageTag \in DOMAIN src.tags /\ src.tags[id.imageTag] = m}
                 ELSE {m \in src.images : DigestOf(m) = id.imageDigest}
    IN  IF found = {}
        THEN Return([images |-> << >>])
        ELSE LET m == CHOOSE x \in found : TRUE
             IN  Return([images |-> <<[imageManifest |-> m, imageManifestMediaType |-> MediaTypeOf(m)]>>])

\* Whether the destination already stores the pushed manifest (under the pushed tag, if any).
DestHasImage(dst, params) ==
    IF "imageTag" \in DOMAIN params
    THEN dst.tags[params["imageTag"]] = params["imageManifest"]
    ELSE params["imageManifest"] \in dst.images

\* The destination registry's answer to put_image.
DestPutImage(dst, params) ==
    IF DestHasImage(dst, params)
    THEN Raise(ImageAlreadyExistsException)
    ELSE Return([image |-> [imageId |-> [imageDigest |-> DigestOf(params["imageManifest"])]]])

\* The destination registry after put_image.
DestAfterPut(dst, params) ==
    IF DestHasImage(dst, params)
    THEN dst
    ELSE [tags |-> IF "imageTag" \in DOMAIN params
                   THEN [dst.tags EXCEPT ![params["imageTag"]] = params["imageManifest"]]
                   ELSE dst.tags,
          images |-> dst.images \cup {params["imageManifest"]}]

\* An image is pushed to the source under a tag; the push event starts the
\* next invocation, which runs up to its first registry call.
SourcePush(t, m) ==
    /\ \E i \in Procs :
          /\ \A j \in Procs : j < i => pc[j] # "idle"
          /\ Invoke(i, PushEvent(t, m), FullEnviron)
    /\ source' = [tags |-> [source.tags EXCEPT ![t] = m],
                  images |-> source.images \cup {m},
                  pushed |-> [source.pushed EXCEPT ![t] = @ \cup {m}]]
    /\ UNCHANGED <<dest, putLog>>

RegistryBatchGetImage(i) ==
    /\ pc[i] = "fetch"
    /\ BatchGetImage(i, SourceBatchGetImage(source, FetchRequest(locals[i])))
    /\ UNCHANGED registryVars

RegistryPutImage(i) ==
    /\ pc[i] = "push"
    /\ PutImage(i, DestPutImage(dest, locals[i].put_params))
    /\ dest' = DestAfterPut(dest, locals[i].put_params)
    /\ putLog' = Append(putLog, i)
    /\ UNCHANGED source

NextRegistry ==
    \/ \E t \in Tags, m \in Manifests : SourcePush(t, m)
    \/ \E i \in Procs : RegistryBatchGetImage(i)
    \/ \E i \in Procs : RegistryPutImage(i)

SpecRegistry == Init /\ [][NextRegistry]_vars

\* ------------------------------------------------------------ what the properties speak of
Done(i) == pc[i] = "done"
EventTag(i) == DictGet(event[i].detail, "image-tag")
EventDigest(i) == DictGet(event[i].detail, "image-digest")
HasTag(i) == EventTag(i) \notin {None, ""}
HasDigest(i) == EventDigest(i) \notin {None, ""}
ConfigComplete(i) == DOMAIN environ[i] = ConfigKeys
FetchCalls(i) == {k \in DOMAIN calls[i] : calls[i][k].op = "batch_get_image"}
PutCalls(i) == {k \in DOMAIN calls[i] : calls[i][k].op = "put_image"}
Returned(i) == result[i].kind = "return"
Raised(i) == result[i].kind = "raise"
Status(i) == IF Returned(i) THEN result[i].value.status ELSE "none"
Contains(message, text) == \E k \in DOMAIN message : message[k] = text

\* the response of call c holds an image with its manifest
ReturnedImage(c) ==
    /\ c.resp.kind = "return"
    /\ "images" \in DOMAIN c.resp.value
    /\ c.resp.value["images"] # << >>
    /\ "imageManifest" \in DOMAIN c.resp.value["images"][1]

\* the response of call c holds no image at all
ReturnedNoImage(c) ==
    /\ c.resp.kind = "return"
    /\ ("images" \in DOMAIN c.resp.value => c.resp.value["images"] = << >>)

\* the response of the push c holds the digest the destination assigned
ReturnedDigest(c) ==
    /\ c.resp.kind = "return"
    /\ "image" \in DOMAIN c.resp.value
    /\ "imageDigest" \in DOMAIN c.resp.value["image"]["imageId"]

\* a response that came back but lacks what the handler reads from it
Malformed(c) ==
    /\ c.resp.kind = "return"
    /\ \/ c.op = "batch_get_image" /\ ~ReturnedImage(c) /\ ~ReturnedNoImage(c)
       \/ c.op = "put_image" /\ ~ReturnedDigest(c)

Requested(i) == IF HasTag(i) THEN EventTag(i) ELSE EventDigest(i)

SourceYieldedNoImage(i) ==
    \E k \in FetchCalls(i) :
        \/ ReturnedNoImage(calls[i][k])
        \/ calls[i][k].resp = Raise(ImageNotFoundException)

C2_NotFoundNamesRequested ==
    \A i \in Procs :
        (Done(i) /\ SourceYieldedNoImage(i))
        => /\ Status(i) = "error"
           /\ Contains(result[i].value.message, Requested(i))
           /\ PutCalls(i) = {}

\* ------------------------------------------------------------ C3
\* C3: if any of the five configuration values is absent, the invocation
\* raises, whatever the event, and makes no registry call.
C3_MissingConfigIsFatal ==
    \A i \in Procs :
        (Done(i) /\ ~ConfigComplete(i)) => (Raised(i) /\ calls[i] = << >>)

\* ------------------------------------------------------------ C4
\* C4: a failure of the fetch or the push other than ImageNotFoundException
\* and ImageAlreadyExistsException (another client exception, or the KeyError
\* of a malformed response) leaves the handler as that same exception.
C4_OtherFailuresPropagate ==
    \A i \in Procs : \A k \in FetchCalls(i) \cup PutCalls(i) :
        LET c == calls[i][k] IN
        /\ (c.resp.kind = "raise" /\ c.resp.exc \notin {ImageNotFoundException, ImageAlreadyExistsException})
           => result[i] = Raise(c.resp.exc)
        /\ Malformed(c) => result[i] = Raise("KeyError")

C4_Witness ==
    \E i \in Procs : \E k \in PutCalls(i) :
        /\ calls[i][k].resp = Raise("EndpointConnectionError")
        /\ result[i] = Raise("EndpointConnectionError")

\* ------------------------------------------------------------ C5
\* C5: when the push raises ImageAlreadyExistsException the result is
\* {status: "skipped", message: "Image already exists"}, and the push is the
\* invocation's last registry call.
C5_AlreadyExistsIsSkipped ==
    \A i \in Procs : \A k \in PutCalls(i) :
        calls[i][k].resp = Raise(ImageAlreadyExistsException)
        => /\ Done(i)
           /\ Status(i) = "skipped"
           /\ result[i].value.message = <<"Image already exists">>
           /\ k = Len(calls[i])

C5_Witness ==
    \E i \in Procs : \E k \in PutCalls(i) :
        /\ calls[i][k].resp = Raise(ImageAlreadyExistsException)
        /\ Status(i) = "skipped"

\* ------------------------------------------------------------ C6
\* C6: the result is "success" exactly when the fetch returned an image and
\* the push returned its digest; it then carries that digest, the configured
\* source account, destination account and repository, and the event's tag
\* (None when the event has no tag).
C6_SuccessResult ==
    \A i \in Procs :
        Done(i) =>
        /\ Status(i) = "success"
           <=> /\ \E k \in FetchCalls(i) : ReturnedImage(calls[i][k])
               /\ \E k \in PutCalls(i) : ReturnedDigest(calls[i][k])
        /\ Status(i) = "success"
           => /\ \E k \in PutCalls(i) :
                    result[i].value.digest = calls[i][k].resp.value["image"]["imageId"]["imageDigest"]
              /\ result[i].value.source_account = environ[i]["SOURCE_ACCOUNT_ID"]
              /\ result[i].value.destination_account = environ[i]["DESTINATION_ACCOUNT_ID"]
              /\ result[i].value.repository = environ[i]["REPO_NAME"]
              /\ result[i].value.tag = EventTag(i)
              /\ ("image-tag" \notin DOMAIN event[i].detail => result[i].value.tag = None)
              /\ DOMAIN result[i].value =
                    {"status", "source_account", "destination_account", "repository", "tag", "digest"}

C6_Witness ==
    \E i \in Procs :
        /\ Status(i) = "success"
        /\ "image-tag" \notin DOMAIN event[i].detail
        /\ HasDigest(i)
        /\ result[i].value.digest # EventDigest(i)
        /\ result[i].value.tag = None

\* ------------------------------------------------------------ C7
\* C7: the lookup names exactly one reference of exactly one kind; for an
\* event with a tag and no digest it is that tag and the push carries the same
\* tag; for a digest-only event it is that digest and the push carries no tag.
TagOnly(i) == HasTag(i) /\ ~HasDigest(i)
DigestOnly(i) == ~HasTag(i) /\ HasDigest(i)

C7_ReferenceUsedConsistently ==
    \A i \in Procs :
        /\ \A k \in FetchCalls(i) :
              LET ids == calls[i][k].args.imageIds IN
              /\ Len(ids) = 1
              /\ DOMAIN ids[1] \in {{"imageTag"}, {"imageDigest"}}
              /\ TagOnly(i) => ids[1] = [imageTag |-> EventTag(i)]
              /\ DigestOnly(i) => ids[1] = [imageDigest |-> EventDigest(i)]
        /\ \A k \in PutCalls(i) :
              LET params == calls[i][k].args IN
              /\ TagOnly(i) => ("imageTag" \in DOMAIN params /\ params["imageTag"] = EventTag(i))
              /\ DigestOnly(i) => "imageTag" \notin DOMAIN params

C7_Witness ==
    \E i \in Procs :
        /\ DigestOnly(i) /\ EventTag(i) = ""
        /\ \E k \in FetchCalls(i) : calls[i][k].args.imageIds = <<[imageDigest |-> EventDigest(i)]>>
        /\ \E k \in PutCalls(i) : "imageTag" \notin DOMAIN calls[i][k].args

\* ------------------------------------------------------------ C8
\* C8: an invocation validates, then fetches, then pushes, then classifies:
\* at most one fetch and one push; a fetch only for a valid event under a
\* complete configuration; a push only after the fetch returned an image,
\* carrying that image's manifest, its media type (omitted when the fetch
\* returned none or an empty one) and the configured repository name; and a
\* result only when the invocation is over.
C8_LinearNoRetry ==
    \A i \in Procs :
        /\ Cardinality(FetchCalls(i)) <= 1
        /\ Cardinality(PutCalls(i)) <= 1
        /\ FetchCalls(i) # {} => (ConfigComplete(i) /\ (HasTag(i) \/ HasDigest(i)))
        /\ \A f \in FetchCalls(i) : calls[i][f].args.repositoryName = environ[i]["REPO_NAME"]
        /\ \A p \in PutCalls(i) : \E f \in FetchCalls(i) :
              LET params == calls[i][p].args IN
              /\ f < p
              /\ ReturnedImage(calls[i][f])
              /\ LET image == calls[i][f].resp.value["images"][1] IN
                 /\ params["imageManifest"] = image["imageManifest"]
                 /\ IF "imageManifestMediaType" \in DOMAIN image /\ image["imageManifestMediaType"] # ""
                    THEN /\ "imageManifestMediaType" \in DOMAIN params
                         /\ params["imageManifestMediaType"] = image["imageManifestMediaType"]
                    ELSE "imageManifestMediaType" \notin DOMAIN params
              /\ params["repositoryName"] = environ[i]["REPO_NAME"]
              /\ DOMAIN params \subseteq
                    {"registryId", "repositoryName", "imageManifest", "imageTag", "imageManifestMediaType"}
        /\ result[i] # Running <=> Done(i)
        /\ (pc[i] = "push") => \E f \in FetchCalls(i) : ReturnedImage(calls[i][f])

C8_Witness ==
    \E i \in Procs : \E p \in PutCalls(i) :
        /\ Status(i) = "success"
        /\ "imageManifestMediaType" \in DOMAIN calls[i][p].args
        /\ calls[i][p].args["imageManifestMediaType"] = AcceptedMediaTypes[3]

\* ------------------------------------------------------------ C9
\* C9: when only one manifest was ever pushed to the source under a tag and
\* exactly two invocations ran for that tag, in any interleaving, then once
\* both are over neither has failed, exactly one returned "success", the one
\* whose push reached the destination second returned "skipped", and the
\* destination holds the source's manifest under the tag.
InvocationsFor(t) == {i \in Procs : pc[i] # "idle" /\ EventTag(i) = t}
PutPosition(i) == CHOOSE k \in DOMAIN putLog : putLog[k] = i

C9_SecondPushIsSkipped ==
    \A t \in Tags :
        (/\ Cardinality(source.pushed[t]) = 1
         /\ Cardinality(InvocationsFor(t)) = 2
         /\ \A i \in InvocationsFor(t) : Done(i))
        => /\ \A i \in InvocationsFor(t) : Status(i) \in {"success", "skipped"}
           /\ Cardinality({i \in InvocationsFor(t) : Status(i) = "success"}) = 1
           /\ \A i, j \in InvocationsFor(t) :
                 (\E k \in DOMAIN putLog : putLog[k] = i) /\ (\E k \in DOMAIN putLog : putLog[k] = j)
                 /\ (PutPosition(i) < PutPosition(j) => (Status(i) = "success" /\ Status(j) = "skipped"))
           /\ dest.tags[t] = source.tags[t]
           /\ dest.tags[t] \in source.pushed[t]

C9_Witness ==
    \E t \in Tags :
        /\ Cardinality(source.pushed[t]) = 1
        /\ InvocationsFor(t) = {1, 2}
        /\ Done(1) /\ Done(2)
        /\ PutPosition(2) < PutPosition(1)
        /\ Status(1) = "skipped" /\ Status(2) = "success"

\* ------------------------------------------------------------ C10
\* C10: once every invocation triggered by a push to the source is over, the
\* destination holds under each pushed tag the manifest the source holds
\* under it.
C10_DestinationConverges ==
    (\A i \in Procs : pc[i] \in {"idle", "done"})
    => \A t \in Tags : source.tags[t] # Absent => dest.tags[t] = source.tags[t]

====
